---- MODULE Spec2Model ----
(***************************************************************************)
(* Model of can_wifi/tactile_signal_publisher.py: the TactileSignalPublisher *)
(* node.  One action per callback (timer_callback, change___statecallback); *)
(* the single-threaded executor of rclpy.spin runs one callback at a time,  *)
(* so each action is a whole callback.                                      *)
(*                                                                          *)
(* np.average yields floats S/N; reference_value keeps every element as the *)
(* exact fraction num[i]/den, so that astype(np.int32) is a real truncation.*)
(***************************************************************************)
EXTENDS Integers, Sequences, FiniteSets, TLC

VARIABLES
    state,              \* self.__state
    calibration_queue,  \* self.__calibration_queue (deque, maxlen = calibration_size)
    reference_value,    \* self.__reference_value, as [num |-> sums, den |-> count]
    node,               \* "running", "raised" (spin left by the exception), "destroyed"
    values,             \* timer_callback's local `values`; <<>> when the latest callback is no cycle
    out,                \* messages handed to self.__publisher.publish by the latest callback
    response,           \* the response returned by the latest callback, NoResponse for a cycle
    log,                \* the logger line of the latest callback, as <<level, text>>
    last,               \* history: the latest callback, its input, and what it was dispatched on
    observed,           \* history: the length-16 samples appended while calibrating, in order
    pc,                 \* where the executor is: "idle", or "recvfrom" inside timer_callback
    pending             \* requests received by the service and not yet handed to the callback

vars == <<state, calibration_queue, reference_value, node, values, out, response, log,
          last, observed, pc, pending>>

----------------------------------------------------------------------------
(* Program constants *)

THRESHOLD_MU == 1
THRESHOLD_SIGMA == 1
NumChannels == 16
DeltaFloor == 3
RecvBufSize == 1024

STATE_LIST == (0 :> "calibration") @@ (1 :> "recording") @@ (99 :> "termination")

(* Bounds of the model *)

calibration_size == 2   \* the 'calibration_size' parameter
MaxObserved == 4        \* cap on the history of calibration samples
MaxTarget == 3          \* transition requests range over 0..MaxTarget and 98..100
MaxLen == 3             \* byte strings of the decoding specification
MaxBase == 5            \* background level of the processing specification's payloads
MaxSpike == 17          \* contact level of the processing specification's payloads
MaxSpikes == 4          \* channels in contact in the processing specification's payloads
MaxRef == 2             \* levels of the calibration samples of the processing specification
MaxPending == 1         \* requests waiting at the service in the executor specification

----------------------------------------------------------------------------
(* Helpers *)

RECURSIVE SeqSum(_)
SeqSum(s) == IF s = <<>> THEN 0 ELSE s[1] + SeqSum(Tail(s))

Min(a, b) == IF a <= b THEN a ELSE b

RECURSIVE from_bytes_Little(_)
from_bytes_Little(chunk) ==
    IF chunk = <<>> THEN 0 ELSE chunk[1] + 256 * from_bytes_Little(Tail(chunk))

(* int.from_bytes(chunk, 'big', signed=False) *)
RECURSIVE from_bytes(_)
from_bytes(chunk) ==
    IF chunk = <<>> THEN 0
    ELSE 256 * from_bytes(SubSeq(chunk, 1, Len(chunk) - 1)) + chunk[Len(chunk)]

(* data[i:i+2], i counted from 0: a slice stops at the end of data *)
Slice(data, i) == SubSeq(data, i + 1, Min(i + 2, Len(data)))

(* [int.from_bytes(data[i:i+2], ...) for i in range(0, len(data), 2)] *)
Decode(data) ==
    [j \in 1..((Len(data) + 1) \div 2) |-> from_bytes(Slice(data, 2 * (j - 1)))]

(* sock.recvfrom(1024): a longer datagram is cut to the buffer size *)
recvfrom(data) == SubSeq(data, 1, Min(Len(data), RecvBufSize))

DequeAppend_DropNewest(q, v) ==
    IF Len(q) = calibration_size THEN q ELSE Append(q, v)

DequeAppend_Unbounded(q, v) == Append(q, v)

DequeAppend_RestartWhenFull(q, v) ==
    IF Len(q) = calibration_size THEN <<v>> ELSE Append(q, v)

(* deque(maxlen=calibration_size).append *)
DequeAppend(q, v) ==
    IF Len(q) = calibration_size THEN Append(Tail(q), v) ELSE Append(q, v)

IsFilled_NonEmpty(q) == Len(q) >= 1

IsSample_AtLeast(v) == Len(v) >= NumChannels

(* len(values) == 16 *)
IsSample(v) == Len(v) = NumChannels

(* len(queue) == queue.maxlen *)
IsFilled(q) == Len(q) = calibration_size

(* np.average(queue, axis=0) *)
average(q) ==
    [num |-> [i \in 1..NumChannels |-> SeqSum([j \in 1..Len(q) |-> q[j][i]])],
     den |-> Len(q)]

astype_int32_Nearest(ref) ==
    [i \in 1..Len(ref.num) |-> (2 * ref.num[i] + ref.den) \div (2 * ref.den)]

(* reference_value.astype(np.int32): truncation toward zero of num/den >= 0 *)
astype_int32(ref) == [i \in 1..Len(ref.num) |-> ref.num[i] \div ref.den]

Broadcasts_AtLeast(v) == Len(v) >= NumChannels \/ Len(v) = 1

(* numpy broadcasting of a 1-d array against the 16-element reference *)
Broadcasts(v) == Len(v) = NumChannels \/ Len(v) = 1

Subtract(v, r) ==
    [i \in 1..NumChannels |-> (IF Len(v) = 1 THEN v[1] ELSE v[i]) - r[i]]

Floor_Strict(d) == [i \in 1..Len(d) |-> IF d[i] < DeltaFloor THEN 0 ELSE d[i]]

Floor_NonPositive(d) == [i \in 1..Len(d) |-> IF d[i] <= 0 THEN 0 ELSE d[i]]

(* data[data <= 3] = 0.0 *)
Floor(d) == [i \in 1..Len(d) |-> IF d[i] <= DeltaFloor THEN 0 ELSE d[i]]

Suppressed_LowVariance(d) ==
    LET n == Len(d)
        S == SeqSum(d)
        Q == SeqSum([i \in 1..n |-> d[i] * d[i]])
    IN  /\ S <= THRESHOLD_MU * n
        /\ n * Q - S * S <= THRESHOLD_SIGMA * THRESHOLD_SIGMA * n * n

(* np.mean(data) <= THRESHOLD_MU and np.var(data) >= THRESHOLD_SIGMA**2, with
   mean = S/n and var = (n*Q - S*S)/(n*n) compared exactly *)
Suppressed(d) ==
    LET n == Len(d)
        S == SeqSum(d)
        Q == SeqSum([i \in 1..n |-> d[i] * d[i]])
    IN  /\ S <= THRESHOLD_MU * n
        /\ n * Q - S * S >= THRESHOLD_SIGMA * THRESHOLD_SIGMA * n * n

(* data.fill(0) under the condition *)
Process(v, ref) ==
    LET d == Floor(Subtract(v, astype_int32(ref)))
    IN  IF Suppressed(d) THEN [i \in 1..Len(d) |-> 0] ELSE d

----------------------------------------------------------------------------
(* change___statecallback, by parts *)

StateAfterRequest_FailStay(transition, cur) ==
    IF transition \in DOMAIN STATE_LIST THEN transition ELSE cur

StateAfterRequest_NoOpResets(transition, cur) ==
    IF transition # cur /\ transition \in DOMAIN STATE_LIST THEN transition ELSE 0

StateAfterRequest_TerminalSticky(transition, cur) ==
    IF cur = 99 THEN cur
    ELSE IF transition \in DOMAIN STATE_LIST THEN transition ELSE 0

(* self.__state after the callback *)
StateAfterRequest(transition, cur) ==
    IF transition # cur
    THEN IF transition \in DOMAIN STATE_LIST THEN transition ELSE 0
    ELSE cur

(* a ChangeState response as the service hands it to the callback *)
NoResponse == [success |-> FALSE, info |-> ""]

(* the response the callback fills in *)
ResponseFor(transition, cur) ==
    IF transition # cur
    THEN IF transition \in DOMAIN STATE_LIST
         THEN [success |-> TRUE, info |-> "OK"]
         ELSE [success |-> FALSE, info |-> "Undefined state"]
    ELSE [success |-> TRUE, info |-> "No transition needed!"]

LogFor(transition, cur) ==
    IF transition # cur
    THEN IF transition \in DOMAIN STATE_LIST
         THEN <<"info", "Changed to state", STATE_LIST[transition]>>
         ELSE <<"error", "Wrong transition! Reverting to state: calibration", "">>
    ELSE <<"info", "In state", STATE_LIST[cur]>>

change___statecallback(transition) ==
    /\ node = "running"
    /\ state' = StateAfterRequest(transition, state)
    /\ response' = ResponseFor(transition, state)
    /\ log' = LogFor(transition, state)
    /\ out' = <<>>
    /\ last' = [op |-> "request", mode |-> state, qlen |-> Len(calibration_queue),
                data |-> <<>>, transition |-> transition]
    /\ values' = <<>>
    /\ UNCHANGED <<calibration_queue, reference_value, node, observed>>

----------------------------------------------------------------------------
(* timer_callback *)

destroy_node_Skipped == "running"

destroy_node_Raises == "raised"

(* self.destroy_node(): timer, service and publisher are gone *)
destroy_node == "destroyed"

raise_Swallowed == "running"

(* raise Exception("Calibration queue is not filled."): the exception leaves
   timer_callback and rclpy.spin, and main ends *)
raise == "raised"

(* the TactileSignal message that is published *)
TactileSignal(addr, data) == [frame_id |-> "world", addr |-> addr, data |-> data]

timer_callback(datagram, addr) ==
    LET data == recvfrom(datagram)
        vals == Decode(data)
    IN
    /\ node = "running"
    /\ (state = 0 /\ IsSample(vals)) => Len(observed) < MaxObserved
    /\ values' = vals
    /\ last' = [op |-> "cycle", mode |-> state, qlen |-> Len(calibration_queue),
                data |-> data, transition |-> 0]
    /\ IF state = 1
       THEN IF IsFilled(calibration_queue)
            THEN /\ reference_value' = average(calibration_queue)
                 /\ IF Broadcasts(vals)
                    THEN /\ out' = <<TactileSignal(addr, Process(vals, reference_value'))>>
                         /\ log' = <<"none", "", "">>
                    ELSE /\ out' = <<>>
                         /\ log' = <<"error", "operands could not be broadcast together", "">>
                 /\ UNCHANGED <<calibration_queue, observed, node>>
            ELSE /\ log' = <<"error", "Uncalibrated sensor!", "">>
                 /\ node' = raise
                 /\ out' = <<>>
                 /\ UNCHANGED <<calibration_queue, observed, reference_value>>
       ELSE IF state = 0
       THEN /\ IF IsSample(vals)
               THEN /\ calibration_queue' = DequeAppend(calibration_queue, vals)
                    /\ observed' = Append(observed, vals)
               ELSE UNCHANGED <<calibration_queue, observed>>
            /\ out' = <<>>
            /\ log' = <<"none", "", "">>
            /\ UNCHANGED <<reference_value, node>>
       ELSE IF state = 99
       THEN /\ log' = <<"warn", "Tactile publisher terminated.", "">>
            /\ node' = destroy_node
            /\ out' = <<>>
            /\ UNCHANGED <<calibration_queue, observed, reference_value>>
       ELSE /\ out' = <<>>
            /\ log' = <<"none", "", "">>
            /\ UNCHANGED <<calibration_queue, observed, reference_value, node>>
    /\ response' = NoResponse
    /\ UNCHANGED state

----------------------------------------------------------------------------
(* Inputs *)

(* a 32-byte datagram: 16 big-endian samples with high byte hi; the first k
   samples have low byte w, the others low byte lo *)
Pattern(hi, lo, w, k) ==
    [b \in 1..(2 * NumChannels) |->
        IF b % 2 = 1 THEN hi ELSE IF b \div 2 <= k THEN w ELSE lo]

SampleA == Pattern(0, 2, 2, 0)
SampleB == Pattern(1, 0, 7, 1)

Payloads ==
    { SampleA, SampleB,
      <<>>, <<7>>, <<0, 7>>,
      SubSeq(SampleB, 1, 2 * NumChannels - 1),
      Append(SampleA, 9) }

Senders == { <<"192.168.0.2", 10240>> }

Targets == (0..MaxTarget) \cup {98, 99, 100}

Zeros == [i \in 1..NumChannels |-> 0]

Init ==
    /\ state = 0
    /\ calibration_queue = <<>>
    /\ reference_value = [num |-> Zeros, den |-> 1]
    /\ node = "running"
    /\ values = <<>>
    /\ out = <<>>
    /\ response = NoResponse
    /\ log = <<"info", "Node started in state: calibration", "">>
    /\ last = [op |-> "init", mode |-> 0, qlen |-> 0, data |-> <<>>, transition |-> 0]
    /\ observed = <<>>
    /\ pc = "idle"
    /\ pending = <<>>

(* In Spec a callback is one step: the timer fires, the datagram is there, the
   request is served as it arrives. *)
Cycle ==
    /\ \E datagram \in Payloads, addr \in Senders : timer_callback(datagram, addr)
    /\ UNCHANGED <<pc, pending>>

Request ==
    /\ \E transition \in Targets : change___statecallback(transition)
    /\ UNCHANGED <<pc, pending>>

Next == Cycle \/ Request

Spec == Init /\ [][Next]_vars

----------------------------------------------------------------------------
(* The signal processor on a wide range of samples: the node has been
   calibrated with calibration_size samples and switched to recording. *)

RefSamples == { Decode(Pattern(0, r, 0, 1)) : r \in 0..MaxRef }

ProcQueues == [1..calibration_size -> RefSamples]

ProcPayloads ==
    { Pattern(0, v, w, k) : v \in 0..MaxBase, w \in 0..MaxSpike, k \in 0..MaxSpikes }
    \cup { <<0, w>> : w \in 0..MaxSpike }
    \cup { <<>>, SubSeq(SampleA, 1, 2 * NumChannels - 2) }

InitProc ==
    /\ state = 1
    /\ calibration_queue \in ProcQueues
    /\ observed = calibration_queue
    /\ reference_value = [num |-> Zeros, den |-> 1]
    /\ node = "running"
    /\ values = <<>>
    /\ out = <<>>
    /\ response = ResponseFor(1, 0)
    /\ log = LogFor(1, 0)
    /\ last = [op |-> "request", mode |-> 0, qlen |-> calibration_size, data |-> <<>>,
               transition |-> 1]
    /\ pc = "idle"
    /\ pending = <<>>

(* one recording cycle per behaviour: a cycle leaves the queue as it is, so a
   second cycle starts from the same queue and reaches no other result *)
NextProc ==
    /\ last.op = "request"
    /\ \E datagram \in ProcPayloads, addr \in Senders : timer_callback(datagram, addr)
    /\ UNCHANGED <<pc, pending>>

SpecProc == InitProc /\ [][NextProc]_vars

----------------------------------------------------------------------------
(* The decoding on every short byte string, and on datagrams one byte short
   and one byte long of 16 samples. *)

ByteVals == {0, 1, 255}

DecodePayloads ==
    UNION { [1..n -> ByteVals] : n \in 0..MaxLen }
    \cup { SubSeq(SampleB, 1, 2 * NumChannels - 1), Append(SampleA, 9) }

NextDecode ==
    \/ /\ \E datagram \in DecodePayloads, addr \in Senders : timer_callback(datagram, addr)
       /\ UNCHANGED <<pc, pending>>
    \/ /\ \E transition \in DOMAIN STATE_LIST : change___statecallback(transition)
       /\ UNCHANGED <<pc, pending>>

SpecDecode == Init /\ [][NextDecode]_vars

----------------------------------------------------------------------------
(* The executor of rclpy.spin, step by step: the timer starts timer_callback,
   which blocks in sock.recvfrom until a datagram arrives; requests arrive at
   the service at any time and are handed to change___statecallback by the
   same executor. *)

ExecutorFree_Reentrant == TRUE

(* rclpy.spin(pub): the default executor is single-threaded, it takes the next
   callback only when the running one has returned *)
ExecutorFree == pc = "idle"

ExecPayloads == { SampleA, <<7>> }

ExecTargets == DOMAIN STATE_LIST \cup {2}

(* the timer is due: timer_callback is entered and blocks in recvfrom *)
TimerStart ==
    /\ node = "running"
    /\ ExecutorFree
    /\ pc = "idle"
    /\ pc' = "recvfrom"
    /\ UNCHANGED <<state, calibration_queue, reference_value, node, values, out,
                   response, log, last, observed, pending>>

(* a datagram arrives: recvfrom returns and the rest of timer_callback runs *)
TimerRecv ==
    /\ pc = "recvfrom"
    /\ \E datagram \in ExecPayloads, addr \in Senders : timer_callback(datagram, addr)
    /\ pc' = "idle"
    /\ UNCHANGED pending

(* a client calls /tactile_publisher/change_state *)
RequestArrive ==
    /\ node = "running"
    /\ Len(pending) < MaxPending
    /\ \E transition \in ExecTargets : pending' = Append(pending, transition)
    /\ UNCHANGED <<state, calibration_queue, reference_value, node, values, out,
                   response, log, last, observed, pc>>

(* the executor hands the oldest request to change___statecallback *)
RequestServe ==
    /\ ExecutorFree
    /\ pending # <<>>
    /\ change___statecallback(Head(pending))
    /\ pending' = Tail(pending)
    /\ UNCHANGED pc

NextExec == TimerStart \/ TimerRecv \/ RequestArrive \/ RequestServe

SpecExec == Init /\ [][NextExec]_vars

(* create_timer(0.03, ...) keeps firing, and the sensor keeps sending: a
   blocked recvfrom eventually returns.  TimerRecv is enabled exactly when
   pc = "recvfrom" and every TimerRecv step leaves it, so weak fairness of
   TimerRecv is the condition that the callback is infinitely often not
   blocked in recvfrom. *)
SpecExecFair == SpecExec /\ WF_vars(TimerStart) /\ []<>(pc # "recvfrom")

----------------------------------------------------------------------------
(* Properties of the mode state machine and the calibration buffer (Spec) *)

(* C1: whatever the prior mode, a transition request whose target is not one
   of 0, 1, 99 leaves the mode Calibrating (0), answers success = false, and
   the node keeps running. *)
C1_InvalidTransitionResets ==
    (last.op = "request" /\ last.transition \notin {0, 1, 99}) =>
        /\ state = 0
        /\ response.success = FALSE
        /\ node = "running"

C1_Witness ==
    /\ last.op = "request"
    /\ last.transition \notin {0, 1, 99}
    /\ last.mode = 99

(* C2: a transition request whose target equals the current mode answers
   success = true and changes neither the mode nor the calibration window. *)
C2_SameStateIsNoOp ==
    [][(last'.op = "request" /\ last'.transition = state) =>
          /\ state' = state
          /\ calibration_queue' = calibration_queue
          /\ response'.success = TRUE]_vars

C2_Witness ==
    /\ last.op = "request"
    /\ last.transition = last.mode
    /\ last.mode = 1
    /\ calibration_queue # <<>>
    /\ response.success = TRUE

(* the channel-wise sum of the samples s[from..to] *)
WindowSum(s, from, to) ==
    [i \in 1..NumChannels |-> SeqSum([j \in 1..(to - from + 1) |-> s[from + j - 1][i]])]

(* C3: the calibration window holds exactly the last min(k, N) of the k
   length-16 samples observed while calibrating, in arrival order, and the
   reference of a recording cycle is the channel-wise mean of the last N. *)
C3_RingBufferEviction ==
    LET k == Len(observed)
        m == Min(k, calibration_size)
    IN  /\ calibration_queue = SubSeq(observed, k - m + 1, k)
        /\ (last.op = "cycle" /\ last.mode = 1 /\ last.qlen = calibration_size) =>
              /\ reference_value.den = calibration_size
              /\ reference_value.num = WindowSum(observed, k - calibration_size + 1, k)

C3_Witness ==
    /\ Len(observed) > calibration_size
    /\ observed[Len(observed) - calibration_size] # observed[Len(observed)]
    /\ last.op = "cycle"
    /\ last.mode = 1
    /\ out # <<>>

(* C4: a recording cycle that finds fewer than N samples in the window reports
   an error, publishes nothing and raises; no callback runs after the raise,
   and nothing is ever published from a window that is not full. *)
C4_UncalibratedRecordingIsFatal ==
    /\ [](/\ (last.op = "cycle" /\ last.mode = 1 /\ last.qlen < calibration_size) =>
                (node = "raised" /\ out = <<>> /\ log[1] = "error")
          /\ out # <<>> => last.qlen = calibration_size)
    /\ [][node # "raised"]_vars

C4_Witness ==
    /\ last.op = "cycle"
    /\ last.mode = 1
    /\ last.qlen > 0
    /\ last.qlen < calibration_size
    /\ node = "raised"

(* C5 as stated: once the mode is Terminating (99), no transition request
   and no cycle changes it. *)
C5_TerminatingIsTerminal == [][state = 99 => state' = 99]_vars

(* C5, amended: a cycle never changes the mode; the cycle dispatched in
   Terminating mode destroys the node with the mode still 99, and no callback
   runs on a destroyed node, so from then on the mode stays Terminating. *)
C5_TerminatedStaysTerminating ==
    /\ []((last.op = "cycle" /\ last.mode = 99) => (state = 99 /\ node = "destroyed"))
    /\ [][node # "destroyed" /\ (last'.op = "cycle" => state' = state)]_vars

C5_Witness ==
    /\ last.op = "cycle"
    /\ last.mode = 99
    /\ node = "destroyed"
    /\ state = 99

(* C6: a message is published only by a cycle dispatched in Recording mode on
   a full window; a cycle dispatched in Calibrating mode publishes nothing;
   no callback publishes more than one message. *)
C6_OutputOnlyWhenRecordingCalibrated ==
    /\ Len(out) <= 1
    /\ out # <<>> =>
          (last.op = "cycle" /\ last.mode = 1 /\ last.qlen = calibration_size)
    /\ (last.op = "cycle" /\ last.mode = 0) => out = <<>>

C6_Witness ==
    /\ Len(out) = 1
    /\ last.op = "cycle"
    /\ last.mode = 1
    /\ Len(values) = NumChannels

(* C7: every transition request is answered with success and info filled in;
   success is true exactly when the target is 0, 1 or 99, and then the mode
   after the call is the target. *)
C7_ResponseAndAcceptedTarget ==
    last.op = "request" =>
        /\ response.success \in BOOLEAN
        /\ response.info # ""
        /\ response.success <=> last.transition \in {0, 1, 99}
        /\ last.transition \in {0, 1, 99} => state = last.transition

C7_Witness ==
    /\ last.op = "request"
    /\ last.mode = 99
    /\ last.transition = 1
    /\ state = 1
    /\ response.success = TRUE

(* C12: a recording cycle on a full window whose subtraction fails (a sample
   that is neither 16 long nor 1 long against the 16-element reference)
   publishes nothing, logs the error, leaves mode and window as they are and
   leaves the node running. *)
C12_ProcessingFailureSkipsCycle ==
    /\ []((/\ last.op = "cycle"
           /\ last.mode = 1
           /\ last.qlen = calibration_size
           /\ Len(values) \notin {1, 16}) =>
              (out = <<>> /\ state = 1 /\ node = "running" /\ log[1] = "error"))
    /\ [][(last'.op = "cycle" /\ state = 1 /\ Len(calibration_queue) = calibration_size) =>
              calibration_queue' = calibration_queue]_vars

C12_Witness ==
    /\ last.op = "cycle"
    /\ last.mode = 1
    /\ last.qlen = calibration_size
    /\ Len(values) = 17
    /\ log[1] = "error"
    /\ node = "running"

(* C13: the window never holds more than calibration_size entries, every
   entry has 16 elements and was appended by a cycle dispatched in
   Calibrating mode; a sample of another length seen while calibrating is
   dropped without an error and without a change of the window. *)
C13_WindowInvariant ==
    /\ [](/\ Len(calibration_queue) <= calibration_size
          /\ \A j \in 1..Len(calibration_queue) :
                /\ Len(calibration_queue[j]) = 16
                /\ \E k \in 1..Len(observed) : observed[k] = calibration_queue[j])
    /\ [][observed' # observed => (state = 0 /\ last'.op = "cycle")]_vars
    /\ [][(last'.op = "cycle" /\ state = 0 /\ Len(values') # 16) =>
              (/\ calibration_queue' = calibration_queue
               /\ node' = "running"
               /\ log'[1] # "error")]_vars

C13_Witness ==
    /\ last.op = "cycle"
    /\ last.mode = 0
    /\ Len(values) = 17
    /\ Len(calibration_queue) = calibration_size
    /\ Len(observed) > calibration_size

(* C14: the cycle dispatched in Terminating mode publishes nothing, leaves
   window, reference and mode as they are and destroys the node; no callback
   runs on the destroyed node. *)
C14_TerminatingCycleOnlyStops ==
    /\ []((last.op = "cycle" /\ last.mode = 99) =>
              (out = <<>> /\ state = 99 /\ node = "destroyed" /\ log[1] = "warn"))
    /\ [][(last'.op = "cycle" /\ state = 99) =>
              (/\ calibration_queue' = calibration_queue
               /\ reference_value' = reference_value)]_vars
    /\ [][node = "running"]_vars

C14_Witness ==
    /\ last.op = "cycle"
    /\ last.mode = 99
    /\ Len(values) = 16
    /\ Len(calibration_queue) = calibration_size
    /\ node = "destroyed"
    /\ out = <<>>

(* C15: a recording cycle whose decoded sample has not exactly 16 elements
   publishes nothing, and a published vector has 16 elements. *)
C15_OnlyLength16IsProcessed ==
    /\ (last.op = "cycle" /\ last.mode = 1 /\ Len(values) # 16) => out = <<>>
    /\ out # <<>> => Len(out[1].data) = 16

(* C17: the window changes only in a cycle dispatched in Calibrating mode with
   a sample of 16 elements; recording and terminating cycles and every
   transition request leave it as it is, so re-entering calibration does not
   clear it. *)
C17_WindowFrame ==
    [][calibration_queue' # calibration_queue =>
          (/\ last'.op = "cycle"
           /\ state = 0
           /\ Len(values') = 16
           /\ calibration_queue'[Len(calibration_queue')] = values')]_vars

C17_Witness ==
    /\ last.op = "request"
    /\ last.mode = 1
    /\ last.transition \notin {0, 1, 99}
    /\ state = 0
    /\ Len(calibration_queue) = calibration_size

(* C18: a window that has reached capacity stays at capacity, and from then on
   no cycle raises 'Calibration queue is not filled'. *)
C18_ReadinessIsMonotone ==
    [][Len(calibration_queue) = calibration_size =>
          (/\ Len(calibration_queue') = calibration_size
           /\ node' # "raised")]_vars

C18_Witness ==
    /\ Len(observed) > calibration_size
    /\ Len(calibration_queue) = calibration_size
    /\ last.op = "cycle"
    /\ last.mode = 1
    /\ node = "running"

----------------------------------------------------------------------------
(* Properties of the signal processor (SpecProc) *)

(* the reference of the window, truncated to an integer, channel by channel *)
IntReference(q) ==
    [i \in 1..NumChannels |-> SeqSum([j \in 1..Len(q) |-> q[j][i]]) \div Len(q)]

Floored(d) == [i \in 1..NumChannels |-> IF d[i] <= 3 THEN 0 ELSE d[i]]

SumOfSquares(d) == SeqSum([i \in 1..Len(d) |-> d[i] * d[i]])

RecordedSample ==
    /\ last.op = "cycle"
    /\ last.mode = 1
    /\ last.qlen = calibration_size
    /\ Len(values) = NumChannels

(* C8: for a length-16 sample and a full window the published vector is the
   floored delta (delta = raw - int(reference), every delta <= 3 set to 0),
   zeroed as a whole exactly when sum <= 16 and 16*sum(d^2) - sum(d)^2 >= 256
   (mean <= 1 and variance >= 1), and unchanged otherwise. *)
C8_ProcessorResult ==
    RecordedSample =>
        LET ref == IntReference(calibration_queue)
            d == Floored([i \in 1..NumChannels |-> values[i] - ref[i]])
            S == SeqSum(d)
            zeroed == S <= 16 /\ 16 * SumOfSquares(d) - S * S >= 256
        IN  /\ Len(out) = 1
            /\ out[1].data = IF zeroed THEN Zeros ELSE d

C8_Witness ==
    /\ RecordedSample
    /\ out[1].data = Zeros
    /\ \E i \in 1..NumChannels : values[i] - IntReference(calibration_queue)[i] > 3

(* C9: when raw - reference is the same integer d on all 16 channels, the
   published vector is [d]*16 for d > 3 and [0]*16 for d <= 3. *)
C9_UniformDelta ==
    RecordedSample =>
        \A d \in -(MaxRef + 1)..(MaxBase + MaxSpike + 1) :
            (\A i \in 1..NumChannels :
                reference_value.den * values[i] - reference_value.num[i]
                    = reference_value.den * d)
            => out[1].data = [i \in 1..NumChannels |-> IF d > 3 THEN d ELSE 0]

C9_Witness ==
    /\ RecordedSample
    /\ reference_value.num = Zeros
    /\ values = [i \in 1..NumChannels |-> 5]
    /\ out[1].data = [i \in 1..NumChannels |-> 5]

----------------------------------------------------------------------------
(* Properties of the decoding (SpecDecode) *)

(* C10 as stated: element i of the decoded sample is 256*b[2i-1] + b[2i], and
   an odd trailing byte is dropped: a datagram of L bytes decodes into
   floor(L/2) elements. *)
C10_DecodeDropsTrailingByte ==
    last.op = "cycle" =>
        LET b == last.data
        IN  /\ Len(values) = Len(b) \div 2
            /\ \A i \in 1..(Len(b) \div 2) : values[i] = 256 * b[2 * i - 1] + b[2 * i]

(* C10, amended: element i of the decoded sample is 256*b[2i-1] + b[2i] for
   every whole 2-byte chunk, and an odd trailing byte is kept as one more
   element equal to that byte: L bytes decode into ceil(L/2) elements. *)
C10_DecodeKeepsTrailingByte ==
    last.op = "cycle" =>
        LET b == last.data
            L == Len(b)
        IN  /\ Len(values) = (L + 1) \div 2
            /\ \A i \in 1..(L \div 2) : values[i] = 256 * b[2 * i - 1] + b[2 * i]
            /\ L % 2 = 1 => values[(L + 1) \div 2] = b[L]

C10_Witness ==
    /\ last.op = "cycle"
    /\ Len(last.data) = 3
    /\ last.data[1] = 1
    /\ last.data[3] = 255
    /\ Len(values) = 2
    /\ values[2] = 255

----------------------------------------------------------------------------
(* Properties of the executor (SpecExec) *)

(* C11: no transition request is applied while a cycle is in flight (blocked
   in the receive included): the mode does not change between the start of a
   cycle and its dispatch, and a request that arrives meanwhile waits. *)
C11_RequestsSerializedWithCycles ==
    [][pc = "recvfrom" =>
          /\ state' = state
          /\ (pc' = "idle" => last'.op = "cycle" /\ last'.mode = state)
          /\ (pc' = "recvfrom" => Len(pending') >= Len(pending))]_vars

C11_Witness ==
    /\ pc = "recvfrom"
    /\ pending # <<>>
    /\ Head(pending) # state
    /\ Head(pending) \in DOMAIN STATE_LIST

(* C19: with the timer firing and a datagram arriving for every blocked
   receive, a node in Terminating mode is eventually destroyed unless a
   request changes the mode first; the node is destroyed only by the step in
   which recvfrom returns, and while the cycle stays blocked in recvfrom no
   mode change, no stop and no response is produced. *)
C19_TerminationNeedsDatagram ==
    /\ (state = 99) ~> (node = "destroyed" \/ state # 99)
    /\ [][(node' = "destroyed") => (pc = "recvfrom" /\ pc' = "idle" /\ state = 99)]_vars
    /\ [][(pc = "recvfrom" /\ pc' = "recvfrom") =>
              (/\ UNCHANGED <<state, node, response, out, log>>
               /\ Len(pending') > Len(pending))]_vars

C19_Witness ==
    /\ state = 99
    /\ pc = "recvfrom"
    /\ node = "running"
    /\ pending # <<>>

----------------------------------------------------------------------------
(* More properties of the signal processor (SpecProc) *)

(* S/N rounded to the nearest integer, a tie to the even neighbour *)
RoundNearest(S, N) ==
    LET q == S \div N
        r == S % N
    IN  IF 2 * r < N THEN q
        ELSE IF 2 * r > N THEN q + 1
        ELSE IF q % 2 = 0 THEN q ELSE q + 1

(* the published vector for a reference given as integers *)
ResultFor(raw, ref) ==
    LET d == Floored([i \in 1..NumChannels |-> raw[i] - ref[i]])
        S == SeqSum(d)
    IN  IF S <= 16 /\ 16 * SumOfSquares(d) - S * S >= 256 THEN Zeros ELSE d

(* C16 as stated: the delta is taken against the reference rounded to the
   nearest integer, round(S/N) for window sum S and capacity N. *)
C16_DeltaUsesRoundedReference ==
    RecordedSample =>
        out[1].data =
            ResultFor(values, [i \in 1..NumChannels |->
                RoundNearest(reference_value.num[i], reference_value.den)])

(* C16, amended: the delta is taken against the reference truncated to an
   integer, floor(S/N); a published element that is not 0 is
   raw - floor(S/N), also where the mean is nearer to floor(S/N) + 1. *)
C16_DeltaUsesTruncatedReference ==
    RecordedSample =>
        /\ out[1].data =
              ResultFor(values, [i \in 1..NumChannels |->
                  reference_value.num[i] \div reference_value.den])
        /\ \A i \in 1..NumChannels :
              out[1].data[i] # 0 =>
                 LET e == reference_value.den * (values[i] - out[1].data[i])
                            - reference_value.num[i]
                 IN  e <= 0 /\ e > -reference_value.den

C16_Witness ==
    /\ RecordedSample
    /\ \E i \in 1..NumChannels :
          /\ RoundNearest(reference_value.num[i], reference_value.den)
                # reference_value.num[i] \div reference_value.den
          /\ out[1].data[i] = values[i] - reference_value.num[i] \div reference_value.den
          /\ out[1].data[i] = 4

(* C20: every element of a published vector is 0 or at least 4. *)
C20_EmittedRange ==
    out # <<>> =>
        \A i \in 1..Len(out[1].data) : out[1].data[i] = 0 \/ out[1].data[i] >= 4

C20_Witness ==
    /\ RecordedSample
    /\ LET ref == astype_int32(reference_value)
       IN  /\ \E i \in 1..NumChannels : values[i] < ref[i] /\ out[1].data[i] = 0
           /\ \E i \in 1..NumChannels : values[i] - ref[i] = 3 /\ out[1].data[i] = 0
           /\ \E i \in 1..NumChannels : out[1].data[i] = 4

====
